---- MODULE Spec2Model ----
(***************************************************************************)
(* Model of download_transcript.py: the Fireflies client (one GraphQL      *)
(* POST), the transcript formatter (JSON tree -> text lines) and main()    *)
(* (API key check, fetch, file naming, the two file writes, the top-level  *)
(* exception handlers).                                                    *)
(*                                                                         *)
(* Representation.  A Python str that the code only prints is a TLA+       *)
(* string; a str the code edits character by character (the title, the     *)
(* transcript id, a string action_items value) is a sequence of one-       *)
(* character strings.  An optional JSON member is a record [k, v]: k is    *)
(* "absent" (no such key), "null" (key present, value null) or "val" (and  *)
(* v is the value).  A Python value that may be None is the same record    *)
(* without the "absent" case.                                              *)
(***************************************************************************)
EXTENDS Integers, Sequences, FiniteSets, TLC

VARIABLES
    pc,            \* position of main(): "start" is the line after parse_args()
    apiKey,        \* os.getenv("FIREFLIES_API_KEY")
    fmt,           \* args.format
    arg,           \* args.transcript
    output,        \* args.output
    transcript_id, \* extract_transcript_id(args.transcript)
    response,      \* what the server answered to the POST (status, body)
    data,          \* the decoded JSON body get_transcript returned / format's argument
    base_filename, \* f"{safe_title}_{transcript_id}"
    formatted,     \* result of TranscriptFormatter.format(data)
    exc,           \* the exception in flight, or NoExc
    files,         \* files written by save_output, in order
    netCalls,      \* number of session.post calls issued
    writeFailed,   \* TRUE once a file-system write raised OSError
    stdout,        \* lines printed to sys.stdout
    stderr,        \* lines printed to sys.stderr
    exitCode,      \* process exit status, -1 while running
    seconds,       \* argument of format_duration (duration specification)
    durationText   \* result of format_duration (duration specification)

vars == <<pc, apiKey, fmt, arg, output, transcript_id, response, data, base_filename,
          formatted, exc, files, netCalls, writeFailed, stdout, stderr,
          exitCode, seconds, durationText>>

----------------------------------------------------------------------------
(* Bounds of the model *)

MaxTitleLen == 3     \* free characters of a title (after the optional padding)
MaxSentences == 4    \* sentences of a transcript (formatter specification)
MaxDuration == 7325  \* largest duration in seconds (duration specification)

(* Program constants *)

RuleWidth == 80          \* "=" * 80
TitleMax == 50           \* [:50]
IdLen == 26              \* [A-Z0-9]{26}
SecondsPerHour == 3600
SecondsPerMinute == 60
ClientErrorMin == 400    \* requests: raise_for_status raises for 400..599
ServerErrorMax == 599

----------------------------------------------------------------------------
(* Characters and strings *)

WhitespaceChars == {" ", "\t", "\n"}                 \* \s, str.strip()
UpperAlnumChars == {"A", "Z", "0", "9"}              \* [A-Z0-9]
WordChars == UpperAlnumChars \cup {"a", "x", "u", "_"}   \* \w

Min(a, b) == IF a < b THEN a ELSE b

RECURSIVE Join(_)
\* "".join(chars): the str made of a sequence of characters
Join(s) == IF s = <<>> THEN "" ELSE Head(s) \o Join(Tail(s))

RECURSIVE JoinWith(_, _)
\* sep.join(strs)
JoinWith(sep, strs) ==
    IF strs = <<>> THEN ""
    ELSE IF Len(strs) = 1 THEN strs[1]
    ELSE strs[1] \o sep \o JoinWith(sep, Tail(strs))

Repeat(c, n) == [i \in 1..n |-> c]

RECURSIVE LStrip(_)
LStrip(s) ==
    IF s # <<>> /\ Head(s) \in WhitespaceChars THEN LStrip(Tail(s)) ELSE s

RECURSIVE RStrip(_)
RStrip(s) ==
    IF s # <<>> /\ s[Len(s)] \in WhitespaceChars
    THEN RStrip(SubSeq(s, 1, Len(s) - 1)) ELSE s

\* str.strip(): leading and trailing whitespace of every kind removed
Strip(s) == RStrip(LStrip(s))

IsKept(c) == c \in WordChars \cup WhitespaceChars \cup {"-"}

\* re.sub(r'[^\w\s-]', '', s)
ReSubUnsafe(s) == SelectSeq(s, IsKept)

\* str.replace(' ', '_'): only the space character is replaced
ReplaceSpaces(s) == [i \in 1..Len(s) |-> IF s[i] = " " THEN "_" ELSE s[i]]

\* s[:n]
Prefix(s, n) == SubSeq(s, 1, Min(n, Len(s)))

\* re.sub(r'[^\w\s-]', '', title).strip().replace(' ', '_')[:50]
safe_title(title) == Prefix(ReplaceSpaces(Strip(ReSubUnsafe(title))), TitleMax)

\* f"{n:02d}"
Pad2(n) == IF n < 10 THEN "0" \o ToString(n) ELSE ToString(n)

----------------------------------------------------------------------------
(* Optional values *)

Absent == [k |-> "absent"]
Null == [k |-> "null"]
Val(x) == [k |-> "val", v |-> x]

\* dict.get(key, default) on a member: the default only replaces a missing
\* key, a null value is returned as None
GetOr(f, default) == IF f.k = "absent" THEN Val(default) ELSE f

\* dict.get(key)
Get(f) == IF f.k = "absent" THEN Null ELSE f

\* Python truthiness of an optional str / number / list
TruthyStr(f) == f.k = "val" /\ f.v # ""
TruthyNum(f) == f.k = "val" /\ f.v # 0
TruthySeq(f) == f.k = "val" /\ f.v # <<>>

\* str(x) inside an f-string, x an optional character sequence
ShowChars(f) == IF f.k = "val" THEN Join(f.v) ELSE "None"
\* str(x) inside an f-string, x an optional str
ShowStr(f) == IF f.k = "val" THEN f.v ELSE "None"

----------------------------------------------------------------------------
(* TranscriptFormatter *)

None == Null

\* a str-or-list value (keywords, action_items)
StrValue(chars) == [isList |-> FALSE, items |-> <<>>, text |-> chars]
ListValue(strs) == [isList |-> TRUE, items |-> strs, text |-> <<>>]

\* {} as a summary, as a transcript, as the "data" object
EmptySummary ==
    [overview |-> Absent, keywords |-> Absent,
     action_items |-> Absent]
EmptyTranscript ==
    [title |-> Absent, id |-> Absent, duration |-> Absent,
     date |-> Absent, participants |-> Absent,
     summary |-> Absent, sentences |-> Absent]
EmptyData == [transcript |-> Absent]

Ok(ls) == [err |-> "", lines |-> ls]
Raise(type) == [err |-> type, lines |-> <<>>]

\* format_timestamp(seconds); seconds is given in tenths of a second, so
\* that int(seconds // 60) and int(seconds % 60) truncate a fraction
format_timestamp(tenths) ==
    LET whole == tenths \div 10
        minutes == whole \div SecondsPerMinute
        secs == whole % SecondsPerMinute
    IN  "[" \o Pad2(minutes) \o ":" \o Pad2(secs) \o "]"

\* minutes taken from the whole duration instead of the remainder of the hour
format_duration_totalMinutes(secs_in) ==
    LET hours == secs_in \div SecondsPerHour
        minutes == secs_in \div SecondsPerMinute
        secs == secs_in % SecondsPerMinute
    IN  IF hours > 0
        THEN ToString(hours) \o "h " \o ToString(minutes) \o "m "
                 \o ToString(secs) \o "s"
        ELSE IF minutes > 0
        THEN ToString(minutes) \o "m " \o ToString(secs) \o "s"
        ELSE ToString(secs) \o "s"

\* format_duration(seconds), seconds a non-negative whole number
format_duration(secs_in) ==
    LET hours == secs_in \div SecondsPerHour
        minutes == (secs_in % SecondsPerHour) \div SecondsPerMinute
        secs == secs_in % SecondsPerMinute
    IN  IF hours > 0
        THEN ToString(hours) \o "h " \o ToString(minutes) \o "m "
                 \o ToString(secs) \o "s"
        ELSE IF minutes > 0
        THEN ToString(minutes) \o "m " \o ToString(secs) \o "s"
        ELSE ToString(secs) \o "s"

Rule == Join(Repeat("=", RuleWidth))

\* datetime.fromtimestamp(ms / 1000).strftime("%Y-%m-%d %H:%M:%S"), for a
\* timestamp within 1970-01-01 and the local zone taken to be UTC
DateStr(ms) ==
    LET s == ms \div 1000
    IN  "1970-01-01 " \o Pad2(s \div SecondsPerHour) \o ":"
            \o Pad2((s % SecondsPerHour) \div SecondsPerMinute) \o ":"
            \o Pad2(s % SecondsPerMinute)

\* _add_header(lines, transcript): the lines appended, or the TypeError of
\* format_duration(None)
_add_header(lines, t) ==
    LET duration == GetOr(t.duration, 0)
        date_ts == Get(t.date)
        participants == GetOr(t.participants, <<>>)
        l1 == lines \o << Rule,
                          "TITLE: " \o ShowChars(GetOr(t.title, <<"N", "/", "A">>)),
                          "ID: " \o ShowChars(GetOr(t.id, <<"N", "/", "A">>)) >>
    IN  IF duration.k # "val" THEN Raise("TypeError")
        ELSE
          LET l2 == Append(l1, "DURATION: " \o format_duration(duration.v))
              l3 == IF TruthyNum(date_ts)
                    THEN Append(l2, "DATE: " \o DateStr(date_ts.v)) ELSE l2
              l4 == IF TruthySeq(participants)
                    THEN Append(l3, "PARTICIPANTS: " \o JoinWith(", ", participants.v))
                    ELSE l3
          IN  Ok(l4 \o << Rule, "" >>)

\* a dict is falsy exactly when it has no key
SummaryEmpty(s) ==
    s.overview.k = "absent" /\ s.keywords.k = "absent" /\ s.action_items.k = "absent"

\* truthiness of keywords / action_items: a str or a list of str
TruthyStrOrList(f) ==
    f.k = "val" /\ (IF f.v.isList THEN f.v.items # <<>> ELSE f.v.text # <<>>)

ItemLines(items) == [i \in 1..Len(items) |-> "  - " \o items[i]]

\* _add_summary(lines, summary); summary is transcript.get("summary", {})
_add_summary(lines, summary) ==
    IF summary.k # "val" \/ SummaryEmpty(summary.v) THEN lines
    ELSE
      LET s == summary.v
          l1 == IF TruthyStr(Get(s.overview))
                THEN lines \o << "--- SUMMARY ---", s.overview.v, "" >>
                ELSE lines
          l2 == IF TruthyStrOrList(s.keywords)
                THEN l1 \o << "--- KEYWORDS ---",
                              IF s.keywords.v.isList
                              THEN JoinWith(", ", s.keywords.v.items)
                              ELSE Join(s.keywords.v.text),
                              "" >>
                ELSE l1
          l3 == IF TruthyStrOrList(s.action_items)
                THEN (l2 \o << "--- ACTION ITEMS ---" >>
                         \o (IF s.action_items.v.isList
                             THEN ItemLines(s.action_items.v.items)
                             ELSE << Join(Strip(s.action_items.v.text)) >>)
                         \o << "" >>)
                ELSE l2
      IN  l3

\* sentence.get("speaker_name") or sentence.get("speaker_id", "Unknown")
Speaker(sentence) ==
    LET name == Get(sentence.speaker_name)
        id == GetOr(sentence.speaker_id, "Unknown")
    IN  IF TruthyStr(name) THEN name
        ELSE IF id.k = "val" THEN id ELSE None

RECURSIVE SentenceLoop(_, _, _, _)
\* the for loop of _add_sentences from sentence i on, current_speaker given
SentenceLoop(lines, sentences, i, current_speaker) ==
    IF i > Len(sentences) THEN Ok(lines)
    ELSE
      LET sentence == sentences[i]
          speaker == Speaker(sentence)
          text == GetOr(sentence.text, "")
          start_time == GetOr(sentence.start_time, 0)
          l1 == IF speaker # current_speaker
                THEN lines \o << "", "--- " \o ShowStr(speaker) \o " ---" >>
                ELSE lines
      IN  IF start_time.k # "val" THEN Raise("TypeError")
          ELSE SentenceLoop(
                   Append(l1, format_timestamp(start_time.v) \o " " \o ShowStr(text)),
                   sentences, i + 1, speaker)

\* _add_sentences(lines, sentences); sentences is transcript.get("sentences", [])
_add_sentences(lines, sentences) ==
    IF ~TruthySeq(sentences) THEN Ok(lines)
    ELSE SentenceLoop(lines \o << Rule, "FULL TRANSCRIPT", Rule, "" >>,
                      sentences.v, 1, None)

\* a transcript dict is falsy exactly when it has no key
TranscriptEmpty(t) ==
    /\ t.title.k = "absent" /\ t.id.k = "absent" /\ t.duration.k = "absent"
    /\ t.date.k = "absent" /\ t.participants.k = "absent"
    /\ t.summary.k = "absent" /\ t.sentences.k = "absent"

\* TranscriptFormatter.format(data), data a decoded JSON object:
\* [err |-> "", lines |-> the lines joined by "\n"] or the exception raised
format(d) ==
    IF d.data.k = "null" THEN Raise("AttributeError")    \* None.get("transcript")
    ELSE
      LET transcript ==
              Get(GetOr(d.data, EmptyData).v.transcript)
      IN  IF transcript.k # "val" \/ TranscriptEmpty(transcript.v)
          THEN Raise("ValueError")
          ELSE
            LET h == _add_header(<<>>, transcript.v)
            IN  IF h.err # "" THEN h
                ELSE _add_sentences(
                         _add_summary(h.lines, GetOr(transcript.v.summary,
                                                     EmptySummary)),
                         GetOr(transcript.v.sentences, <<>>))

----------------------------------------------------------------------------
(* FirefliesClient *)

NoExc == [type |-> "", msg |-> ""]
Exc(type, msg) == [type |-> type, msg |-> msg]

\* only a 5xx status raises
RaisesForStatus_only5xx(status) == 500 <= status /\ status <= ServerErrorMax

\* Response.raise_for_status(): raises HTTPError for a 4xx or 5xx status,
\* returns for any other status
RaisesForStatus(status) == ClientErrorMin <= status /\ status <= ServerErrorMax

\* "errors" in data, data a decoded JSON value: key membership for an
\* object, element membership for a list (the lists of the model do not
\* hold the string), TypeError for a number
HasErrors(body) == body.k = "obj" /\ body.errors

\* get_transcript after the POST was sent: [exc, data]
get_transcript(resp) ==
    IF ~resp.sent
    THEN [exc |-> Exc("ConnectionError", "connection failed"), data |-> resp.body]
    ELSE IF RaisesForStatus(resp.status)
    THEN [exc |-> Exc("HTTPError", ToString(resp.status) \o " Error"),
          data |-> resp.body]
    ELSE IF resp.body.k = "notjson"
    THEN [exc |-> Exc("JSONDecodeError", "Expecting value"), data |-> resp.body]
    ELSE IF resp.body.k = "num"
    THEN [exc |-> Exc("TypeError", "argument of type 'int' is not iterable"),
          data |-> resp.body]
    ELSE IF HasErrors(resp.body)
    THEN [exc |-> Exc("Exception", "GraphQL Error: [...]"), data |-> resp.body]
    ELSE [exc |-> NoExc, data |-> resp.body]

----------------------------------------------------------------------------
(* main() *)

AllUpperAlnum(s) == \A i \in 1..Len(s) : s[i] \in UpperAlnumChars

\* re.search(r"([A-Z0-9]{26})", s): the start positions of a match
MatchStarts(s) ==
    {i \in 1..(Len(s) - IdLen + 1) : AllUpperAlnum(SubSeq(s, i, i + IdLen - 1))}

\* extract_transcript_id(url_or_id)
extract_transcript_id(s) ==
    IF MatchStarts(s) # {}
    THEN LET i == CHOOSE m \in MatchStarts(s) : \A n \in MatchStarts(s) : m <= n
         IN  SubSeq(s, i, i + IdLen - 1)
    ELSE s

\* the check as `api_key is None`: an empty key passes
KeyMissing_onlyNone(api_key) == api_key.k # "val"

\* not api_key
KeyMissing(api_key) == ~TruthyStr(api_key)

\* data.get("data", {}).get("transcript", {}).get("title", transcript_id):
\* [err, title]
TitleOf(d, tid) ==
    IF d.k # "obj" THEN [err |-> "AttributeError", title |-> tid]
    ELSE
      LET dd == GetOr(d.data, EmptyData)
      IN  IF dd.k # "val" THEN [err |-> "AttributeError", title |-> tid]
          ELSE
            LET t == GetOr(dd.v.transcript, EmptyTranscript)
            IN  IF t.k # "val" THEN [err |-> "AttributeError", title |-> tid]
                ELSE
                  LET title == GetOr(t.v.title, tid)
                  IN  IF title.k # "val"      \* re.sub on None
                      THEN [err |-> "TypeError", title |-> tid]
                      ELSE [err |-> "", title |-> title.v]

\* f"{safe_title}_{transcript_id}"
BaseFilename(title, tid) == safe_title(title) \o <<"_">> \o tid

JsonExt == <<".", "j", "s", "o", "n">>
TxtExt == <<".", "t", "x", "t">>

\* output_dir / f"{base_filename}{ext}"
PathOf(dir, base, ext) == [dir |-> dir, name |-> base \o ext]

\* str(path) as printed: Path(".") / name prints as the bare name
ShowPath(p) == IF p.dir = "." THEN Join(p.name) ELSE p.dir \o "/" \o Join(p.name)

\* the exit status of both except clauses and of the API key check
FailureStatus == 1

----------------------------------------------------------------------------
(* Inputs *)

RECURSIVE SeqsOfLen(_, _)
SeqsOfLen(S, n) ==
    IF n = 0 THEN {<<>>}
    ELSE {Append(q, c) : q \in SeqsOfLen(S, n - 1), c \in S}

SeqsUpTo(S, n) == UNION {SeqsOfLen(S, m) : m \in 0..n}

Id26 == [i \in 1..IdLen |-> IF i % 2 = 1 THEN "A" ELSE "9"]

\* a bare id, a URL holding one, a string with no 26-character run
Args == {Id26, <<"u", "/">> \o Id26 \o <<"/", "x">>, <<"a", " ", "!", "Z">>}

ApiKeys == {None, Val(""), Val("k")}
Formats == {"txt", "json", "both"}
OutputDirs == {".", "out"}

\* titles: short ones, and ones long enough to be cut at TitleMax
TitleAlphabet == {"a", " ", "\t", "-", "!"}
Titles ==
    {pad \o t : pad \in {<<>>, Repeat("x", TitleMax - 1)},
                t \in SeqsUpTo(TitleAlphabet, MaxTitleLen)}

Sentence(name, id, i) ==
    [speaker_name |-> name, speaker_id |-> id, text |-> Val("Hi"),
     start_time |-> Val(659 * (i - 1))]

Transcript(title, duration) ==
    [title |-> title, id |-> Val(Id26), duration |-> duration,
     date |-> Null, participants |-> Val(<<>>),
     summary |-> Val(EmptySummary),
     sentences |-> Val(<<Sentence(Val("Alice"), Val("s1"), 1)>>)]

\* decoded JSON bodies
ObjBody(errors, dataField) == [k |-> "obj", errors |-> errors, data |-> dataField]
WithTranscript(tField) == Val([transcript |-> tField])
NotJsonBody == [k |-> "notjson"]
NumBody == [k |-> "num"]
ListBody == [k |-> "list"]

\* bodies without a usable transcript
BareBodies ==
    {ObjBody(FALSE, Absent), ObjBody(FALSE, Null),
     ObjBody(FALSE, WithTranscript(Absent)),
     ObjBody(FALSE, WithTranscript(Null)),
     ObjBody(FALSE, WithTranscript(Val(EmptyTranscript)))}

ErrorBodies ==
    {ObjBody(TRUE, Null),
     ObjBody(TRUE, WithTranscript(Null))}

TitledBodies ==
    {ObjBody(FALSE, WithTranscript(Val(Transcript(title, duration)))) :
        title \in {Absent, Null} \cup {Val(t) : t \in Titles},
        duration \in {Null, Val(125)}}

Bodies ==
    {NotJsonBody, NumBody, ListBody} \cup BareBodies \cup ErrorBodies
        \cup TitledBodies

SmallBodies ==
    {NotJsonBody, ListBody, ObjBody(TRUE, Null),
     ObjBody(FALSE, WithTranscript(Val(Transcript(Val(<<"a">>), Val(125)))))}

NoResponse == [sent |-> FALSE, status |-> 0, body |-> NotJsonBody]

\* what the POST can come back with: no answer at all, or a status and a body
Responses ==
    {NoResponse}
        \cup {[sent |-> TRUE, status |-> 200, body |-> b] : b \in Bodies}
        \cup {[sent |-> TRUE, status |-> st, body |-> b] :
                 st \in {304, 404, 500}, b \in SmallBodies}

NoResult == [err |-> "unset", lines |-> <<>>]

----------------------------------------------------------------------------
(* main(), from the line after parse_args() *)

Init ==
    /\ pc = "start"
    /\ apiKey \in ApiKeys
    /\ fmt \in Formats
    /\ arg \in Args
    /\ output \in OutputDirs
    /\ transcript_id = <<>>
    /\ response = NoResponse
    /\ data = NotJsonBody
    /\ base_filename = <<>>
    /\ formatted = NoResult
    /\ exc = NoExc
    /\ files = <<>>
    /\ netCalls = 0
    /\ writeFailed = FALSE
    /\ stdout = <<>>
    /\ stderr = <<>>
    /\ exitCode = -1
    /\ seconds = 0
    /\ durationText = ""

\* lines 208-216
CheckApiKey ==
    /\ pc = "start"
    /\ IF KeyMissing(apiKey)
       THEN /\ stderr' = Append(stderr,
                   "Error: FIREFLIES_API_KEY environment variable is not set")
            /\ exitCode' = FailureStatus
            /\ pc' = "exit"
            /\ UNCHANGED <<transcript_id, stdout>>
       ELSE /\ transcript_id' = extract_transcript_id(arg)
            /\ stdout' = Append(stdout, "Downloading transcript: "
                                          \o Join(extract_transcript_id(arg)))
            /\ pc' = "fetch"
            /\ UNCHANGED <<stderr, exitCode>>
    /\ UNCHANGED <<apiKey, fmt, arg, output, response, data, base_filename,
                   formatted, exc, files, netCalls, writeFailed, seconds,
                   durationText>>

\* lines 219-220: FirefliesClient(api_key), client.get_transcript(transcript_id)
GetTranscript ==
    /\ pc = "fetch"
    /\ IF ~TruthyStr(apiKey)
       THEN /\ exc' = Exc("ValueError", "API key is required")
            /\ pc' = "except"
            /\ UNCHANGED <<response, data, netCalls>>
       ELSE \E resp \in Responses :
              /\ response' = resp
              /\ netCalls' = netCalls + 1
              /\ LET r == get_transcript(resp)
                 IN  IF r.exc # NoExc
                     THEN /\ exc' = r.exc
                          /\ pc' = "except"
                          /\ UNCHANGED data
                     ELSE /\ data' = r.data
                          /\ pc' = "name"
                          /\ UNCHANGED exc
    /\ UNCHANGED <<apiKey, fmt, arg, output, transcript_id, base_filename,
                   formatted, files, writeFailed, stdout, stderr, exitCode,
                   seconds, durationText>>

\* lines 222-224
ComputeName ==
    /\ pc = "name"
    /\ LET t == TitleOf(data, transcript_id)
       IN  IF t.err # ""
           THEN /\ exc' = Exc(t.err, "no title")
                /\ pc' = "except"
                /\ UNCHANGED base_filename
           ELSE /\ base_filename' = BaseFilename(t.title, transcript_id)
                /\ pc' = "json"
                /\ UNCHANGED exc
    /\ UNCHANGED <<apiKey, fmt, arg, output, transcript_id, response, data,
                   formatted, files, netCalls, writeFailed, stdout, stderr,
                   exitCode, seconds, durationText>>

\* lines 226-229; save_output may fail in the file system (OSError)
SaveJson ==
    /\ pc = "json"
    /\ IF fmt \in {"json", "both"}
       THEN \E written \in BOOLEAN :
              IF written
              THEN /\ files' = Append(files, PathOf(output, base_filename, JsonExt))
                   /\ stdout' = Append(stdout, "Saved: "
                                          \o ShowPath(PathOf(output, base_filename, JsonExt)))
                   /\ pc' = "txt"
                   /\ UNCHANGED <<exc, writeFailed>>
              ELSE /\ exc' = Exc("OSError", "cannot write")
                   /\ writeFailed' = TRUE
                   /\ pc' = "except"
                   /\ UNCHANGED <<files, stdout>>
       ELSE /\ pc' = "txt"
            /\ UNCHANGED <<files, stdout, exc, writeFailed>>
    /\ UNCHANGED <<apiKey, fmt, arg, output, transcript_id, response, data,
                   base_filename, formatted, netCalls, stderr, exitCode,
                   seconds, durationText>>

\* lines 231-236
FormatAndSaveTxt ==
    /\ pc = "txt"
    /\ IF fmt \in {"txt", "both"}
       THEN /\ formatted' = format(data)
            /\ IF format(data).err # ""
               THEN /\ exc' = Exc(format(data).err, "format failed")
                    /\ pc' = "except"
                    /\ UNCHANGED <<files, stdout, writeFailed>>
               ELSE \E written \in BOOLEAN :
                      IF written
                      THEN /\ files' = Append(files,
                                          PathOf(output, base_filename, TxtExt))
                           /\ stdout' = Append(stdout, "Saved: "
                                  \o ShowPath(PathOf(output, base_filename, TxtExt)))
                           /\ pc' = "done"
                           /\ UNCHANGED <<exc, writeFailed>>
                      ELSE /\ exc' = Exc("OSError", "cannot write")
                           /\ writeFailed' = TRUE
                           /\ pc' = "except"
                           /\ UNCHANGED <<files, stdout>>
       ELSE /\ pc' = "done"
            /\ UNCHANGED <<formatted, files, stdout, exc, writeFailed>>
    /\ UNCHANGED <<apiKey, fmt, arg, output, transcript_id, response, data,
                   base_filename, netCalls, stderr, exitCode, seconds,
                   durationText>>

\* line 238 and the return of main()
Done ==
    /\ pc = "done"
    /\ stdout' = Append(stdout, "Done.")
    /\ exitCode' = 0
    /\ pc' = "exit"
    /\ UNCHANGED <<apiKey, fmt, arg, output, transcript_id, response, data,
                   base_filename, formatted, exc, files, netCalls, writeFailed,
                   stderr, seconds, durationText>>

\* lines 240-244: except requests.exceptions.HTTPError
HandleHTTPError ==
    /\ pc = "except"
    /\ exc.type = "HTTPError"
    /\ stderr' = stderr \o << "HTTP Error: " \o exc.msg, "Response: <body>" >>
    /\ exitCode' = FailureStatus
    /\ pc' = "exit"
    /\ UNCHANGED <<apiKey, fmt, arg, output, transcript_id, response, data,
                   base_filename, formatted, exc, files, netCalls, writeFailed,
                   stdout, seconds, durationText>>

\* the handler prints the message and falls off the end of main()
HandleException_noExit ==
    /\ pc = "except"
    /\ exc.type # "HTTPError"
    /\ stderr' = Append(stderr, "Error: " \o exc.msg)
    /\ exitCode' = 0
    /\ pc' = "exit"
    /\ UNCHANGED <<apiKey, fmt, arg, output, transcript_id, response, data,
                   base_filename, formatted, exc, files, netCalls, writeFailed,
                   stdout, seconds, durationText>>

\* lines 245-247: except Exception
HandleException ==
    /\ pc = "except"
    /\ exc.type # "HTTPError"
    /\ stderr' = Append(stderr, "Error: " \o exc.msg)
    /\ exitCode' = FailureStatus
    /\ pc' = "exit"
    /\ UNCHANGED <<apiKey, fmt, arg, output, transcript_id, response, data,
                   base_filename, formatted, exc, files, netCalls, writeFailed,
                   stdout, seconds, durationText>>

Next ==
    \/ CheckApiKey
    \/ GetTranscript
    \/ ComputeName
    \/ SaveJson
    \/ FormatAndSaveTxt
    \/ Done
    \/ HandleHTTPError
    \/ HandleException

Spec == Init /\ [][Next]_vars

----------------------------------------------------------------------------
(* TranscriptFormatter.format called on its own *)

\* the speaker members a sentence can carry
SpeakerPairs ==
    { <<Val("Alice"), Val("s1")>>, <<Val("Bob"), Val("s2")>>,
      <<Null, Val("s1")>>, <<Absent, Absent>>,
      <<Null, Null>>, <<Val(""), Val("")>>, <<Absent, Val("s2")>> }

Sentences(pairs) == [i \in 1..Len(pairs) |-> Sentence(pairs[i][1], pairs[i][2], i)]

SentenceLists ==
    {Sentences(ps) : ps \in SeqsUpTo(SpeakerPairs, MaxSentences) \ {<<>>}}

Summaries ==
    {Absent, Null, Val(EmptySummary),
     Val([overview |-> Val("Weekly sync"), keywords |-> Null,
          action_items |-> Absent]),
     Val([overview |-> Val(""), keywords |-> Val(ListValue(<<"plan", "budget">>)),
          action_items |-> Val(StrValue(<<" ", "d", "o", "\n">>))]),
     Val([overview |-> Absent, keywords |-> Val(StrValue(<<"k">>)),
          action_items |-> Val(ListValue(<<"ship", "test">>))])}

\* transcripts that differ in their optional members
MetaTranscripts ==
    {[title |-> title, id |-> id, duration |-> duration, date |-> date,
      participants |-> participants, summary |-> summary, sentences |-> sentences] :
        title \in {Absent, Null, Val(<<"a">>)},
        id \in {Absent, Val(Id26)},
        duration \in {Absent, Null, Val(0), Val(125)},
        date \in {Absent, Null, Val(0), Val(61000)},
        participants \in {Absent, Null, Val(<<>>), Val(<<"Al", "Bo">>)},
        summary \in Summaries,
        sentences \in {Absent, Null, Val(<<>>),
                       Val(Sentences(<<<<Val("Alice"), Val("s1")>>>>))}}

\* transcripts that differ in their sentences
SpokenTranscripts ==
    {[Transcript(Val(<<"a">>), Val(125)) EXCEPT !.sentences = Val(ss)] :
        ss \in SentenceLists}

FormatInputs ==
    BareBodies
        \cup {ObjBody(FALSE, WithTranscript(Val(t))) :
                 t \in MetaTranscripts \cup SpokenTranscripts}

InitFormat ==
    /\ pc = "call"
    /\ data \in FormatInputs
    /\ formatted = NoResult
    /\ apiKey = None
    /\ fmt = "txt"
    /\ arg = <<>>
    /\ output = "."
    /\ transcript_id = <<>>
    /\ response = NoResponse
    /\ base_filename = <<>>
    /\ exc = NoExc
    /\ files = <<>>
    /\ netCalls = 0
    /\ writeFailed = FALSE
    /\ stdout = <<>>
    /\ stderr = <<>>
    /\ exitCode = -1
    /\ seconds = 0
    /\ durationText = ""

\* formatter.format(data)
CallFormat ==
    /\ pc = "call"
    /\ formatted' = format(data)
    /\ pc' = "returned"
    /\ UNCHANGED <<apiKey, fmt, arg, output, transcript_id, response, data,
                   base_filename, exc, files, netCalls, writeFailed, stdout,
                   stderr, exitCode, seconds, durationText>>

NextFormat == CallFormat

SpecFormat == InitFormat /\ [][NextFormat]_vars

----------------------------------------------------------------------------
(* TranscriptFormatter.format_duration called on its own *)

InitDuration ==
    /\ pc = "call"
    /\ seconds \in 0..MaxDuration
    /\ durationText = ""
    /\ data = NotJsonBody
    /\ formatted = NoResult
    /\ apiKey = None
    /\ fmt = "txt"
    /\ arg = <<>>
    /\ output = "."
    /\ transcript_id = <<>>
    /\ response = NoResponse
    /\ base_filename = <<>>
    /\ exc = NoExc
    /\ files = <<>>
    /\ netCalls = 0
    /\ writeFailed = FALSE
    /\ stdout = <<>>
    /\ stderr = <<>>
    /\ exitCode = -1

\* TranscriptFormatter.format_duration(seconds)
CallFormatDuration ==
    /\ pc = "call"
    /\ durationText' = format_duration(seconds)
    /\ pc' = "returned"
    /\ UNCHANGED <<apiKey, fmt, arg, output, transcript_id, response, data,
                   base_filename, formatted, exc, files, netCalls, writeFailed,
                   stdout, stderr, exitCode, seconds>>

NextDuration == CallFormatDuration

SpecDuration == InitDuration /\ [][NextDuration]_vars

----------------------------------------------------------------------------
(* Claims about main() and the client, checked under Spec *)

RequestedExts ==
    IF fmt = "both" THEN {JsonExt, TxtExt}
    ELSE IF fmt = "json" THEN {JsonExt} ELSE {TxtExt}

WrittenExts ==
    {ext \in {JsonExt, TxtExt} :
        \E i \in 1..Len(files) : files[i] = PathOf(output, base_filename, ext)}

AllRequestedWritten ==
    WrittenExts = RequestedExts /\ Len(files) = Cardinality(RequestedExts)

\* C1: a run that ends without a file-system write failure has written
\* either every requested file or no file at all.
C1_NoPartialSuccess ==
    (pc = "exit" /\ ~writeFailed) => (AllRequestedWritten \/ files = <<>>)

\* some failure happened during the run
Failed == KeyMissing(apiKey) \/ exc # NoExc

\* C2: at exit the status is 0 or 1; it is 0 exactly when every requested
\* file was written; every failure (missing key, HTTP, GraphQL, formatting,
\* any other exception of fetch, formatting or writing) gives status 1, with
\* a message on stderr; an exception is never swallowed (once raised the run
\* only reaches the handler and the exit) and the POST is never repeated.
C2_ExitStatus ==
    /\ pc = "exit" =>
         /\ exitCode \in {0, FailureStatus}
         /\ (exitCode = 0) <=> AllRequestedWritten
         /\ Failed => exitCode = FailureStatus
         /\ exitCode = FailureStatus => (Failed /\ stderr # <<>>)
    /\ exc # NoExc => pc \in {"except", "exit"}
    /\ netCalls <= 1
    /\ pc # "exit" => exitCode = -1

\* C2 witness: the run ended with status 1 on a formatting error after the
\* JSON file had been written.
C2_Witness ==
    /\ pc = "exit" /\ exitCode = FailureStatus
    /\ exc.type = "ValueError" /\ Len(files) = 1 /\ stderr # <<>>

\* get_transcript has returned a value (data holds a decoded body)
Returned == data # NotJsonBody

Is2xx(status) == 200 <= status /\ status <= 299

ReplaceWhitespace(s) ==
    [i \in 1..Len(s) |-> IF s[i] \in WhitespaceChars THEN "_" ELSE s[i]]

ClaimedSafeTitle(title) ==
    Prefix(ReplaceWhitespace(Strip(ReSubUnsafe(title))), TitleMax)

\* the title of the response, when it has one
HasTitle ==
    /\ data.k = "obj" /\ data.data.k = "val"
    /\ data.data.v.transcript.k = "val"
    /\ data.data.v.transcript.v.title.k = "val"

ResponseTitle == data.data.v.transcript.v.title.v

\* C8: every file written for a response with a title is named
\* <sanitized title, cut at 50>_<transcriptId> plus its extension, in the
\* output directory; the title part holds no whitespace and at most 50
\* characters; the files of one run share the base name.
C8_FileNames ==
    \A i \in 1..Len(files) :
      /\ files[i].dir = output
      /\ \E ext \in {JsonExt, TxtExt} : files[i].name = base_filename \o ext
      /\ HasTitle =>
           /\ base_filename
                = ClaimedSafeTitle(ResponseTitle) \o <<"_">> \o transcript_id
           /\ Len(ClaimedSafeTitle(ResponseTitle)) <= TitleMax
           /\ \A j \in 1..(Len(base_filename) - Len(transcript_id) - 1) :
                base_filename[j] \notin WhitespaceChars

\* C9: at most one POST and two file writes; a POST only with a non-empty
\* key; with the key absent or empty the run goes from the start straight to
\* the exit with status 1 and the configuration message, no POST, no file.
C9_KeyFirst ==
    /\ netCalls <= 1
    /\ Len(files) <= 2
    /\ netCalls > 0 => TruthyStr(apiKey)
    /\ (~TruthyStr(apiKey) /\ pc # "start") =>
         /\ pc = "exit"
         /\ exitCode = FailureStatus
         /\ stderr = <<"Error: FIREFLIES_API_KEY environment variable is not set">>
         /\ netCalls = 0
         /\ files = <<>>

\* C9 witness: a run with an empty key has exited with status 1, no POST.
C9_Witness ==
    /\ apiKey = Val("") /\ pc = "exit" /\ exitCode = FailureStatus
    /\ netCalls = 0 /\ files = <<>>

----------------------------------------------------------------------------
(* Claims about TranscriptFormatter.format, checked under SpecFormat *)

TranscriptField == GetOr(data.data, EmptyData).v.transcript

\* data.transcript is null or absent (no "data" key and a null "data" included)
TranscriptMissing == data.data.k # "val" \/ TranscriptField.k # "val"

\* C4: with data.transcript null or absent, format raises ValueError and
\* nothing else, and returns no text.
C4_MissingTranscriptIsValueError ==
    (pc = "returned" /\ TranscriptMissing) => formatted = Raise("ValueError")

\* the sentences format walks
SentencesOf ==
    IF TranscriptMissing \/ ~TruthySeq(TranscriptField.v.sentences) THEN <<>>
    ELSE TranscriptField.v.sentences.v

TextLine(sentence) ==
    format_timestamp(sentence.start_time.v) \o " " \o ShowStr(sentence.text)

RECURSIVE IndexOf(_, _, _)
\* first position >= i of line x in ls, 0 if none
IndexOf(ls, x, i) ==
    IF i > Len(ls) THEN 0 ELSE IF ls[i] = x THEN i ELSE IndexOf(ls, x, i + 1)

\* the sentence stream of the output: what follows the transcript block's
\* rule, "FULL TRANSCRIPT", rule and blank line
Stream ==
    LET at == IndexOf(formatted.lines, "FULL TRANSCRIPT", 1)
    IN  IF at = 0 THEN <<>>
        ELSE SubSeq(formatted.lines, at + 3, Len(formatted.lines))

NotBlankNorText(l) ==
    l # "" /\ \A i \in 1..Len(SentencesOf) : l # TextLine(SentencesOf[i])

\* the speaker header lines of the output, in order
HeaderLines == SelectSeq(Stream, NotBlankNorText)

\* the effective speaker as format shows it
Shown(sentence) == ShowStr(Speaker(sentence))

RECURSIVE ExpectedStream(_, _)
\* C5's stream: a blank line and a header before sentence i exactly when
\* i = 1 or its effective speaker differs from that of sentence i - 1
ExpectedStream(ss, i) ==
    IF i > Len(ss) THEN <<>>
    ELSE (IF i = 1 \/ Shown(ss[i]) # Shown(ss[i - 1])
          THEN << "", "--- " \o Shown(ss[i]) \o " ---" >> ELSE <<>>)
             \o << TextLine(ss[i]) >> \o ExpectedStream(ss, i + 1)

Changes(ss) == Cardinality({i \in 2..Len(ss) : Shown(ss[i]) # Shown(ss[i - 1])})

\* C5: for a non-empty sentence sequence the stream has a header (after a
\* blank line) right before sentence i exactly when i = 1 or the effective
\* speaker changed, so there are 1 + (adjacent changes) headers.
C5_HeaderOnSpeakerChange ==
    (pc = "returned" /\ formatted.err = "" /\ SentencesOf # <<>>) =>
      /\ Stream = ExpectedStream(SentencesOf, 1)
      /\ Len(HeaderLines) = 1 + Changes(SentencesOf)

\* the effective speaker as the claim has it
ClaimedSpeaker(sentence) ==
    IF TruthyStr(sentence.speaker_name) THEN sentence.speaker_name.v
    ELSE IF TruthyStr(sentence.speaker_id) THEN sentence.speaker_id.v
    ELSE "Unknown"

\* C6: the speaker format uses for a sentence is speaker_name if non-empty,
\* else speaker_id if non-empty, else "Unknown"; every header shows such a
\* speaker and none shows a null or empty one.
C6_EffectiveSpeaker ==
    (pc = "returned" /\ formatted.err = "") =>
      /\ \A i \in 1..Len(SentencesOf) :
           Speaker(SentencesOf[i]) = Val(ClaimedSpeaker(SentencesOf[i]))
      /\ \A j \in 1..Len(HeaderLines) :
           \E i \in 1..Len(SentencesOf) :
             HeaderLines[j] = "--- " \o ClaimedSpeaker(SentencesOf[i]) \o " ---"

\* the summary object is present and non-empty
HasSummary ==
    /\ TranscriptField.v.summary.k = "val"
    /\ ~SummaryEmpty(TranscriptField.v.summary.v)

SummaryHeadings == {"--- SUMMARY ---", "--- KEYWORDS ---", "--- ACTION ITEMS ---"}

HeadingAt(ls, x) == IndexOf(ls, x, 1)

\* C7: with data.transcript present and non-null format succeeds, whatever
\* optional members are absent, null or empty; the header block comes first
\* (rule, TITLE, ID, DURATION, DATE only with a date, PARTICIPANTS only if
\* non-empty, rule, blank line), summary lines only for a non-empty summary
\* and after the header, the transcript block last and only with sentences.
C7_PresentTranscriptFormats ==
    (pc = "returned" /\ ~TranscriptMissing) =>
      LET ls == formatted.lines
          t == TranscriptField.v
          close == IndexOf(ls, Rule, 2)
          block == HeadingAt(ls, "FULL TRANSCRIPT")
      IN  /\ formatted.err = ""
          /\ Len(ls) >= 6
          /\ ls[1] = Rule
          /\ ls[2] = "TITLE: " \o ShowChars(GetOr(t.title, <<"N", "/", "A">>))
          /\ ls[3] = "ID: " \o ShowChars(GetOr(t.id, <<"N", "/", "A">>))
          /\ ls[4] = "DURATION: " \o format_duration(GetOr(t.duration, 0).v)
          /\ close \in 5..7
          /\ ls[close + 1] = ""
          /\ close > 5 => (TruthyNum(t.date) \/ TruthySeq(t.participants))
          /\ close = 7 => (TruthyNum(t.date) /\ TruthySeq(t.participants))
          /\ \A h \in SummaryHeadings :
               HeadingAt(ls, h) # 0 =>
                 /\ HasSummary
                 /\ HeadingAt(ls, h) > close + 1
                 /\ block # 0 => HeadingAt(ls, h) < block
          /\ block # 0 <=> SentencesOf # <<>>
          /\ block # 0 =>
               /\ ls[block - 1] = Rule /\ ls[block + 1] = Rule
               /\ ls[block + 2] = ""
               /\ \A h \in SummaryHeadings : HeadingAt(ls, h) < block

----------------------------------------------------------------------------
(* Claim about format_duration, checked under SpecDuration *)

\* C10: for a non-negative whole number of seconds d, with h = d div 3600,
\* m = (d mod 3600) div 60, s = d mod 60, the text is "Hh Mm Ss" if h > 0,
\* "Mm Ss" if h = 0 and m > 0, else "Ss"; h*3600 + m*60 + s = d; and
\* 45 -> "45s", 125 -> "2m 5s", 3725 -> "1h 2m 5s", 3600 -> "1h 0m 0s".
C10_DurationText ==
    pc = "returned" =>
      LET h == seconds \div 3600
          m == (seconds % 3600) \div 60
          s == seconds % 60
      IN  /\ h * 3600 + m * 60 + s = seconds
          /\ m < 60 /\ s < 60
          /\ h > 0 => durationText
                        = ToString(h) \o "h " \o ToString(m) \o "m "
                            \o ToString(s) \o "s"
          /\ (h = 0 /\ m > 0) => durationText
                        = ToString(m) \o "m " \o ToString(s) \o "s"
          /\ (h = 0 /\ m = 0) => durationText = ToString(s) \o "s"
          /\ seconds = 45 => durationText = "45s"
          /\ seconds = 125 => durationText = "2m 5s"
          /\ seconds = 3725 => durationText = "1h 2m 5s"
          /\ seconds = 3600 => durationText = "1h 0m 0s"

\* C10 witness: format_duration(3600) returned "1h 0m 0s".
C10_Witness ==
    pc = "returned" /\ seconds = 3600 /\ durationText = "1h 0m 0s"

============================================================================
